---- MODULE Spec2Model ----
(***************************************************************************)
(* The workflow-stream hook of src/src/hooks/useWorkflowStream.ts as a     *)
(* state machine.                                                          *)
(*                                                                         *)
(* React state (workflowSteps, answers, isStreaming, isConnecting,         *)
(* isCompleted, error) and the three refs are the shared state.  Every     *)
(* call of startWorkflowStream that passes its guard is one "session": an  *)
(* async function whose position (pc) moves at each await.  A callback     *)
(* closes over the isStreaming / isConnecting of the render that created   *)
(* it, so a session carries the values its closure captured.  JavaScript   *)
(* runs each continuation to completion: `running` names the session that  *)
(* is inside the synchronous message loop of processStreamResponse, and    *)
(* nothing else runs until it leaves it.  A session and the reconnection   *)
(* timer it sets share an id; an id is used again once the promise has     *)
(* settled and the timer is no longer pending.                             *)
(***************************************************************************)
EXTENDS Integers, Sequences, FiniteSets, TLC

VARIABLES
    workflowSteps,        \* useState<WorkflowStepState[]>
    answers,              \* useState<StoredAnswer[]>
    isStreaming,          \* useState<boolean>
    isConnecting,         \* useState<boolean>
    isCompleted,          \* useState<boolean>
    error,                \* useState<string | null>
    abortControllerRef,   \* 0 = null, else the session whose controller it holds
    reconnectTimeoutRef,  \* 0 = null, else the id of a timer
    reconnectAttemptsRef, \* number
    sessions,             \* id -> the invocation of startWorkflowStream and its timer
    running,              \* 0, or the session inside the message loop
    now,                  \* the latest reading of Date.now()
    codec                 \* the response body and the `buffer` of processStreamResponse

vars == <<workflowSteps, answers, isStreaming, isConnecting, isCompleted, error,
          abortControllerRef, reconnectTimeoutRef, reconnectAttemptsRef,
          sessions, running, now, codec>>

model == <<workflowSteps, answers, isStreaming, isConnecting, isCompleted, error>>
refs == <<abortControllerRef, reconnectTimeoutRef, reconnectAttemptsRef>>

-----------------------------------------------------------------------------
(* Bounds of the model *)

MaxLive == 2      \* ids (promises not yet settled, timers pending) in Spec
MaxLiveRetry == 4 \* ids in SpecRetry
MaxSteps == 2
MaxAnswers == 2
MaxLines == 2
MaxClock == 1
MaxBlocks == 3   \* blocks of a response body in SpecCodec

(* Program constants *)

MAX_RECONNECT_ATTEMPTS == 3

Null == "null"
CeilingMessage == "Failed to connect after 3 attempts. Please try again."
FetchFailedMessage == "Failed to fetch"
HttpErrorMessage == "HTTP 500: Internal Server Error"
ReadFailedMessage == "network error"

-----------------------------------------------------------------------------
(* Inputs *)

Nodes == {"n1", "n2"}
Articles == {"a1", "a2"}
LineLists == {<<"d1">>, <<"d2">>, <<"d1", "d2">>}

\* A WorkflowEvent.  `content` is the string content of the event; `lines` is
\* the string[] content of an internal_content event.
Event(t, st, n, c, l) ==
    [type |-> t, event_status |-> st, node |-> n, content |-> c, lines |-> l]

NewEvent(n) == Event("internal", "new", n, "c1", <<>>)
OldEvent == Event("internal", "old", "n1", "c2", <<>>)
AnswerEvent == Event("answer", "", "n1", "c1", <<>>)
ErrorEvent == Event("error", "", "", "boom", <<>>)
CompleteEvent == Event("complete", "", "", "done", <<>>)
UnknownEvent == Event("ping", "", "", "", <<>>)

\* The events of SpecStream: every type, two nodes, one or two lines.
StreamEvents ==
    {NewEvent(n) : n \in Nodes}
    \cup {OldEvent, AnswerEvent, ErrorEvent, CompleteEvent, UnknownEvent}
    \cup {Event("internal_content", "", "n1", "", l) : l \in LineLists}

\* The decoded messages of one chunk, in wire order: none, one, or a first
\* message with a second one behind it in the same chunk.
StreamChunks ==
    {<<>>} \cup {<<e>> : e \in StreamEvents}
    \cup {<<e, f>> : e \in {ErrorEvent, CompleteEvent, NewEvent("n1")},
                     f \in {NewEvent("n1"), AnswerEvent}}

\* The events and chunks of Spec, where sessions overlap.
Events == {NewEvent("n1"), AnswerEvent, ErrorEvent, CompleteEvent}

Chunks ==
    {<<>>} \cup {<<e>> : e \in Events}
    \cup {<<e, NewEvent("n1")>> : e \in {ErrorEvent, CompleteEvent}}

-----------------------------------------------------------------------------
(* The reducer: processWorkflowEvent *)

generateStepId(nodeName, clock) == <<nodeName, clock>>

\* A step that drops the content it is seeded with.
createEmptyStep(nodeName, content, clock) ==
    [id |-> generateStepId(nodeName, clock),
     nodeName |-> nodeName,
     content |-> "",
     internalContent |-> <<>>,
     isCurrent |-> TRUE,
     isCompleted |-> FALSE,
     showDetails |-> TRUE,
     isLoading |-> TRUE]

createNewStep(nodeName, content, clock) ==
    [id |-> generateStepId(nodeName, clock),
     nodeName |-> nodeName,
     content |-> content,
     internalContent |-> <<>>,
     isCurrent |-> TRUE,
     isCompleted |-> FALSE,
     showDetails |-> TRUE,
     isLoading |-> TRUE]

\* The map of an 'internal'/'new' event over the previous steps.
KeepPreviousCurrent(step) ==
    [step EXCEPT !.isCompleted = TRUE, !.isLoading = FALSE]

MarkPrevious(step) ==
    [step EXCEPT !.isCurrent = FALSE, !.isCompleted = TRUE, !.isLoading = FALSE]

\* Replacing the content of a step whether or not it is the current one.
UpdateAnyContent(step, content) == [step EXCEPT !.content = content]

UpdateContent(step, content) ==
    IF step.isCurrent THEN [step EXCEPT !.content = content] ELSE step

\* Appending only the lines the step does not hold yet.
AppendNewLines(step, lines) ==
    IF step.isCurrent
    THEN [step EXCEPT !.internalContent =
             step.internalContent
             \o SelectSeq(lines, LAMBDA l :
                    \A k \in 1..Len(step.internalContent) :
                        step.internalContent[k] # l)]
    ELSE step

AppendLines(step, lines) ==
    IF step.isCurrent
    THEN [step EXCEPT !.internalContent = step.internalContent \o lines]
    ELSE step

\* Completing a step without collapsing it.
CompleteShown(step) ==
    [step EXCEPT !.isCurrent = FALSE, !.isCompleted = TRUE, !.isLoading = FALSE]

CompleteStep(step) ==
    [step EXCEPT !.isCurrent = FALSE, !.isCompleted = TRUE,
                 !.isLoading = FALSE, !.showDetails = FALSE]

StepsAfter(steps, ev, clock) ==
    CASE ev.type = "internal" /\ ev.event_status = "new" ->
            Append([i \in 1..Len(steps) |-> MarkPrevious(steps[i])],
                   createNewStep(ev.node, ev.content, clock))
      [] ev.type = "internal" /\ ev.event_status = "old" ->
            [i \in 1..Len(steps) |-> UpdateContent(steps[i], ev.content)]
      [] ev.type = "internal_content" ->
            [i \in 1..Len(steps) |-> AppendLines(steps[i], ev.lines)]
      [] ev.type = "complete" ->
            [i \in 1..Len(steps) |-> CompleteStep(steps[i])]
      [] OTHER -> steps

\* Keeping only the latest answer.
LatestAnswerOnly(ans, ev, clock) ==
    IF ev.type = "answer"
    THEN <<[node |-> ev.node, data |-> ev.content, receivedAt |-> clock]>>
    ELSE ans

AnswersAfter(ans, ev, clock) ==
    IF ev.type = "answer"
    THEN Append(ans, [node |-> ev.node, data |-> ev.content, receivedAt |-> clock])
    ELSE ans

\* An 'error' event that is not reported.
ErrorKept(err, ev) == err

ErrorAfter(err, ev) == IF ev.type = "error" THEN ev.content ELSE err

processWorkflowEvent(ev) ==
    /\ workflowSteps' = StepsAfter(workflowSteps, ev, now')
    /\ answers' = AnswersAfter(answers, ev, now')
    /\ error' = ErrorAfter(error, ev)
    /\ isCompleted' = IF ev.type = "complete" THEN TRUE ELSE isCompleted
    /\ isStreaming' = IF ev.type \in {"error", "complete"} THEN FALSE ELSE isStreaming
    /\ isConnecting' = IF ev.type \in {"error", "complete"} THEN FALSE ELSE isConnecting

\* After which event the message loop returns instead of going on.
NeverStops(ev) == FALSE

StopsReading(ev) == ev.type = "complete"

-----------------------------------------------------------------------------
(* The codec: the text handling of processStreamResponse.  A text is a      *)
(* sequence of one-character strings.                                       *)

Marker == <<"d", "a", "t", "a", ":">>
Whitespace == {" ", "\n"}

\* JSON.parse: the payloads "1" and "2" stand for the JSON text of an event,
\* every other text makes it throw.
Payloads == {"1", "2"}
\* A parser that never throws.
ParsesAnything(jsonString) == TRUE

Parses(jsonString) == Len(jsonString) = 1 /\ jsonString[1] \in Payloads
Parsed(jsonString) ==
    IF jsonString[1] = "1" THEN NewEvent("n1") ELSE AnswerEvent

\* The place of the first line end, blank line or not.
IndexOfNewline(buffer) ==
    LET hits == {i \in 1..Len(buffer) : buffer[i] = "\n"}
    IN  IF hits = {} THEN 0 ELSE CHOOSE i \in hits : \A j \in hits : i <= j

\* buffer.indexOf('\n\n'), counted from 1; 0 when there is none.
IndexOfBlank(buffer) ==
    LET hits == {i \in 1..(Len(buffer) - 1) :
                    buffer[i] = "\n" /\ buffer[i + 1] = "\n"}
    IN  IF hits = {} THEN 0 ELSE CHOOSE i \in hits : \A j \in hits : i <= j

\* String.prototype.trim
RECURSIVE TrimStart(_)
TrimStart(text) ==
    IF text # <<>> /\ Head(text) \in Whitespace THEN TrimStart(Tail(text)) ELSE text
RECURSIVE TrimEnd(_)
TrimEnd(text) ==
    IF text # <<>> /\ text[Len(text)] \in Whitespace
    THEN TrimEnd(SubSeq(text, 1, Len(text) - 1))
    ELSE text
Trim(text) == TrimEnd(TrimStart(text))

StartsWith(text, prefix) ==
    Len(text) >= Len(prefix) /\ SubSeq(text, 1, Len(prefix)) = prefix

\* The events one message hands to processWorkflowEvent: one, or none when
\* the message does not start with the marker, is empty or does not parse.
MessageEvents(messageLine) ==
    IF StartsWith(messageLine, Marker)
    THEN LET jsonString == Trim(SubSeq(messageLine, Len(Marker) + 1, Len(messageLine)))
         IN  IF jsonString # <<>> /\ Parses(jsonString)
             THEN <<Parsed(jsonString)>> ELSE <<>>
    ELSE <<>>

\* The inner while loop over the buffer: the events of the complete messages,
\* in order, and what is left of the buffer.
RECURSIVE Decode(_)
Decode(buffer) ==
    LET messageEndIndex == IndexOfBlank(buffer)
    IN  IF messageEndIndex = 0
        THEN [events |-> <<>>, rest |-> buffer]
        ELSE LET messageLine == Trim(SubSeq(buffer, 1, messageEndIndex - 1))
                 later == Decode(SubSeq(buffer, messageEndIndex + 2, Len(buffer)))
             IN  [events |-> MessageEvents(messageLine) \o later.events,
                  rest |-> later.rest]

\* The blocks a server sends.
Block(kind, payload) == [kind |-> kind, payload |-> payload]
BlockText(b) ==
    CASE b.kind = "plain" -> Marker \o <<b.payload, "\n", "\n">>
      [] b.kind = "spaced" -> Marker \o <<" ", b.payload, "\n", "\n">>
      [] b.kind = "noisy" -> <<":", "k", "\n">> \o Marker \o <<b.payload, "\n", "\n">>
      [] b.kind = "cut" -> Marker \o <<b.payload, "\n">>
RECURSIVE Wire(_)
Wire(blocks) ==
    IF blocks = <<>> THEN <<>> ELSE BlockText(Head(blocks)) \o Wire(Tail(blocks))

\* No response body is modelled.
NoCodec == [blocks |-> <<>>, wire |-> <<>>, carry |-> <<>>, handed |-> <<>>]

-----------------------------------------------------------------------------
(* Sessions *)

Slots == DOMAIN sessions

\* No promise and no timer of this id.
NoSession ==
    [pc |-> "none",               \* none, fetch, errtext, read, loop, cancel
     aborted |-> FALSE,           \* signal.aborted
     userArticle |-> "",
     capStreaming |-> FALSE,      \* isStreaming of the closure
     capConnecting |-> FALSE,     \* isConnecting of the closure
     buffer |-> <<>>,             \* decoded messages of the chunk not yet handled
     timer |-> "none",            \* the timer this session set: none, pending
     gotError |-> FALSE,          \* an 'error' event was processed
     gotComplete |-> FALSE]       \* a 'complete' event was processed

NewSession(article, capStreaming, capConnecting) ==
    [NoSession EXCEPT !.pc = "fetch", !.userArticle = article,
                      !.capStreaming = capStreaming,
                      !.capConnecting = capConnecting]

Live(s) == sessions[s].pc # "none"
Open(s) == Live(s) /\ sessions[s].pc # "cancel" /\ ~sessions[s].aborted
Pending(t) == sessions[t].timer = "pending"

FreeIn(base) == {s \in DOMAIN base : base[s] = NoSession}
LowestFree(base) == CHOOSE s \in FreeIn(base) : \A u \in FreeIn(base) : s <= u

InitModel ==
    /\ workflowSteps = <<>>
    /\ answers = <<>>
    /\ isStreaming = FALSE
    /\ isConnecting = FALSE
    /\ isCompleted = FALSE
    /\ error = Null
    /\ abortControllerRef = 0
    /\ reconnectTimeoutRef = 0
    /\ reconnectAttemptsRef = 0
    /\ running = 0
    /\ now = 0

Init ==
    /\ InitModel
    /\ sessions = [s \in 1..MaxLive |-> NoSession]
    /\ codec = NoCodec

\* The guard of startWorkflowStream, for a closure that captured capStreaming.
StartRejected(capStreaming) == capStreaming \/ abortControllerRef # 0

\* startWorkflowStream(article) up to its first await, called through a closure
\* that captured (capStreaming, capConnecting); `base` is the session table at
\* the call.
startWorkflowStream(article, capStreaming, capConnecting, base) ==
    IF StartRejected(capStreaming)
    THEN /\ sessions' = base
         /\ UNCHANGED <<model, refs>>
    ELSE /\ FreeIn(base) # {}
         /\ workflowSteps' = <<>>
         /\ answers' = <<>>
         /\ error' = Null
         /\ isCompleted' = FALSE
         /\ isStreaming' = TRUE
         /\ isConnecting' = TRUE
         /\ sessions' = [base EXCEPT ![LowestFree(base)] =
                            NewSession(article, capStreaming, capConnecting)]
         /\ abortControllerRef' = LowestFree(base)
         /\ UNCHANGED <<reconnectTimeoutRef, reconnectAttemptsRef>>

\* The user calls the startWorkflowStream of the latest render.
UserStart(article) ==
    /\ running = 0
    /\ startWorkflowStream(article, isStreaming, isConnecting, sessions)
    /\ UNCHANGED <<running, now>>

\* A reconnection timer fires: the closure that failed is called again.
TimerFire(t) ==
    /\ running = 0
    /\ Pending(t)
    /\ startWorkflowStream(sessions[t].userArticle, sessions[t].capStreaming,
                           sessions[t].capConnecting,
                           [sessions EXCEPT ![t] = NoSession])
    /\ UNCHANGED <<running, now>>

\* A stop that leaves the retry count as it is.
stopKeepsCount ==
    /\ running = 0
    /\ abortControllerRef' = 0
    /\ reconnectTimeoutRef' = 0
    /\ isStreaming' = FALSE
    /\ isConnecting' = FALSE
    /\ sessions' = [s \in Slots |->
          LET aborted == IF s = abortControllerRef /\ Live(s)
                         THEN [sessions[s] EXCEPT !.aborted = TRUE]
                         ELSE sessions[s]
          IN  IF s = reconnectTimeoutRef /\ Pending(s) THEN NoSession ELSE aborted]
    /\ UNCHANGED <<workflowSteps, answers, isCompleted, error, running, now,
                   reconnectAttemptsRef>>

stopStream ==
    /\ running = 0
    /\ abortControllerRef' = 0
    /\ reconnectTimeoutRef' = 0
    /\ reconnectAttemptsRef' = 0
    /\ isStreaming' = FALSE
    /\ isConnecting' = FALSE
    /\ sessions' = [s \in Slots |->
          LET aborted == IF s = abortControllerRef /\ Live(s)
                         THEN [sessions[s] EXCEPT !.aborted = TRUE]
                         ELSE sessions[s]
          IN  IF s = reconnectTimeoutRef /\ Pending(s) THEN NoSession ELSE aborted]
    /\ UNCHANGED <<workflowSteps, answers, isCompleted, error, running, now>>

StepIds == {workflowSteps[i].id : i \in 1..Len(workflowSteps)}

toggleStepExpansion(stepId) ==
    /\ running = 0
    /\ workflowSteps' =
           [i \in 1..Len(workflowSteps) |->
               IF workflowSteps[i].id = stepId
               THEN [workflowSteps[i] EXCEPT
                        !.showDetails = ~workflowSteps[i].showDetails]
               ELSE workflowSteps[i]]
    /\ UNCHANGED <<answers, isStreaming, isConnecting, isCompleted, error,
                   refs, sessions, running, now>>

-----------------------------------------------------------------------------
(* The async body of startWorkflowStream *)

\* attemptReconnection gives up (lines 292-299) or schedules (lines 301-311).
GivesUp(attempts) == attempts >= MAX_RECONNECT_ATTEMPTS

\* The catch block retries: the error is no AbortError, the signal is not
\* aborted and the ceiling is not reached.
Retries(s, kind) ==
    /\ kind = "throw"
    /\ ~sessions[s].aborted
    /\ reconnectAttemptsRef < MAX_RECONNECT_ATTEMPTS

\* The finally block cleans up unless a reconnection timer is set.
CleansUp(timeoutRef) == timeoutRef = 0

\* The promise of session s settles: the catch block (for kind "throw", an
\* error with message msg; for kind "abort", an AbortError; none for kind
\* "return") and then the finally block, in one continuation.
Settle(s, kind, msg) ==
    LET retry == Retries(s, kind)
        schedules == retry /\ ~GivesUp(reconnectAttemptsRef)
        ceiling == retry /\ GivesUp(reconnectAttemptsRef)
        errorC == IF ceiling THEN CeilingMessage
                  ELSE IF kind = "throw" /\ ~retry THEN msg
                  ELSE error
        timeoutC == IF schedules THEN s ELSE reconnectTimeoutRef
        clean == CleansUp(timeoutC)
    IN  /\ error' = errorC
        /\ reconnectAttemptsRef' =
              IF schedules THEN reconnectAttemptsRef + 1 ELSE reconnectAttemptsRef
        /\ reconnectTimeoutRef' = timeoutC
        /\ isStreaming' = IF clean \/ ceiling THEN FALSE ELSE isStreaming
        /\ isConnecting' = IF clean \/ ceiling THEN FALSE ELSE isConnecting
        /\ abortControllerRef' = IF clean THEN 0 ELSE abortControllerRef
        /\ sessions' = [sessions EXCEPT ![s] =
              IF schedules
              THEN [NoSession EXCEPT
                      !.timer = "pending",
                      !.userArticle = sessions[s].userArticle,
                      !.capStreaming = sessions[s].capStreaming,
                      !.capConnecting = sessions[s].capConnecting]
              ELSE NoSession]
        /\ UNCHANGED <<workflowSteps, answers, isCompleted, running, now>>

\* fetch resolves with an OK response that has a body.
FetchOk(s) ==
    /\ running = 0
    /\ sessions[s].pc = "fetch" /\ ~sessions[s].aborted
    /\ sessions' = [sessions EXCEPT ![s].pc = "read"]
    /\ UNCHANGED <<model, refs, running, now>>

\* fetch resolves with a response that is not OK: response.text() is awaited.
FetchNotOk(s) ==
    /\ running = 0
    /\ sessions[s].pc = "fetch" /\ ~sessions[s].aborted
    /\ sessions' = [sessions EXCEPT ![s].pc = "errtext"]
    /\ UNCHANGED <<model, refs, running, now>>

\* fetch rejects with a network error.
FetchReject(s) ==
    /\ running = 0
    /\ sessions[s].pc = "fetch" /\ ~sessions[s].aborted
    /\ Settle(s, "throw", FetchFailedMessage)

\* response.text() settles (its rejection is swallowed) and new Error(...) is
\* thrown, whether or not the signal was aborted meanwhile.
ErrorTextSettles(s) ==
    /\ running = 0
    /\ sessions[s].pc = "errtext"
    /\ Settle(s, "throw", HttpErrorMessage)

\* The pending fetch or reader.read() of an aborted session rejects with an
\* AbortError (or read() resolves and the loop breaks on signal.aborted).
AbortSettles(s) ==
    /\ running = 0
    /\ sessions[s].pc \in {"fetch", "read"} /\ sessions[s].aborted
    /\ Settle(s, "abort", Null)

CountType(chunk, t) == Cardinality({i \in 1..Len(chunk) : chunk[i].type = t})
CountNew(chunk) ==
    Cardinality({i \in 1..Len(chunk) :
                    chunk[i].type = "internal" /\ chunk[i].event_status = "new"})
RECURSIVE SumLines(_)
SumLines(chunk) ==
    IF chunk = <<>> THEN 0 ELSE Len(Head(chunk).lines) + SumLines(Tail(chunk))
LongestLines ==
    LET ls == {Len(workflowSteps[i].internalContent) : i \in 1..Len(workflowSteps)}
    IN  IF ls = {} THEN 0 ELSE CHOOSE m \in ls : \A k \in ls : k <= m

\* The chunks the server sends keep the lists within the bounds of the model.
WithinBounds(chunk) ==
    /\ Len(workflowSteps) + CountNew(chunk) <= MaxSteps
    /\ Len(answers) + CountType(chunk, "answer") <= MaxAnswers
    /\ LongestLines + SumLines(chunk) <= MaxLines

\* reader.read() resolves with a chunk that holds the messages `chunk`.
ReadChunk(s, chunk) ==
    /\ running = 0
    /\ sessions[s].pc = "read" /\ ~sessions[s].aborted
    /\ WithinBounds(chunk)
    /\ isConnecting' = IF sessions[s].capConnecting THEN FALSE ELSE isConnecting
    /\ reconnectAttemptsRef' =
          IF sessions[s].capConnecting THEN 0 ELSE reconnectAttemptsRef
    /\ sessions' = [sessions EXCEPT
                      ![s].buffer = chunk,
                      ![s].pc = IF chunk = <<>> THEN "read" ELSE "loop"]
    /\ running' = IF chunk = <<>> THEN 0 ELSE s
    /\ UNCHANGED <<workflowSteps, answers, isStreaming, isCompleted, error,
                   abortControllerRef, reconnectTimeoutRef, now>>

\* The events whose handling reads Date.now() or new Date().
ReadsClock(ev) ==
    \/ ev.type = "internal" /\ ev.event_status = "new"
    \/ ev.type = "answer"

\* The readings the clock can give next: it never goes back.
Readings == {t \in now..(now + 1) : t <= MaxClock}

\* One turn of the inner while loop: the next message is parsed and handled,
\* with t the reading of the clock.
HandleMessage(s, t) ==
    /\ running = s
    /\ sessions[s].pc = "loop"
    /\ LET ev == Head(sessions[s].buffer)
           rest == Tail(sessions[s].buffer)
       IN  /\ now' = IF ReadsClock(ev) THEN t ELSE now
           /\ processWorkflowEvent(ev)
           /\ sessions' = [sessions EXCEPT
                  ![s].gotError = @ \/ ev.type = "error",
                  ![s].gotComplete = @ \/ ev.type = "complete",
                  ![s].buffer = IF StopsReading(ev) THEN <<>> ELSE rest,
                  ![s].pc = IF StopsReading(ev) THEN "cancel"
                            ELSE IF rest = <<>> THEN "read" ELSE "loop"]
           /\ running' = IF StopsReading(ev) \/ rest = <<>> THEN 0 ELSE s
    /\ UNCHANGED refs

\* reader.read() reports done: the loop breaks and the function returns.
ReadDone(s) ==
    /\ running = 0
    /\ sessions[s].pc = "read" /\ ~sessions[s].aborted
    /\ Settle(s, "return", Null)

\* reader.read() rejects with a network error.
ReadFail(s) ==
    /\ running = 0
    /\ sessions[s].pc = "read" /\ ~sessions[s].aborted
    /\ Settle(s, "throw", ReadFailedMessage)

\* reader.cancel() settles after a 'complete' event and the function returns.
CancelDone(s) ==
    /\ running = 0
    /\ sessions[s].pc = "cancel"
    /\ Settle(s, "return", Null)

\* A step of the async function of session s.
SessionStep(s) ==
    \/ FetchOk(s) \/ FetchNotOk(s) \/ FetchReject(s) \/ ErrorTextSettles(s)
    \/ AbortSettles(s) \/ ReadDone(s) \/ ReadFail(s) \/ CancelDone(s)
    \/ \E chunk \in StreamChunks : ReadChunk(s, chunk)
    \/ \E t \in Readings : HandleMessage(s, t)

-----------------------------------------------------------------------------
(* Specifications *)

BogusId == <<"none", 0>>

Control ==
    \/ \E a \in Articles : UserStart(a) /\ UNCHANGED codec
    \/ \E t \in Slots : TimerFire(t) /\ UNCHANGED codec
    \/ stopStream /\ UNCHANGED codec
    \/ \E id \in StepIds \cup {BogusId} : toggleStepExpansion(id) /\ UNCHANGED codec

Transport ==
    \/ \E s \in Slots : FetchOk(s) /\ UNCHANGED codec
    \/ \E s \in Slots : FetchNotOk(s) /\ UNCHANGED codec
    \/ \E s \in Slots : FetchReject(s) /\ UNCHANGED codec
    \/ \E s \in Slots : ErrorTextSettles(s) /\ UNCHANGED codec
    \/ \E s \in Slots : AbortSettles(s) /\ UNCHANGED codec
    \/ \E s \in Slots : \E t \in Readings : HandleMessage(s, t) /\ UNCHANGED codec
    \/ \E s \in Slots : ReadDone(s) /\ UNCHANGED codec
    \/ \E s \in Slots : ReadFail(s) /\ UNCHANGED codec
    \/ \E s \in Slots : CancelDone(s) /\ UNCHANGED codec

\* Spec: up to MaxLive sessions overlap; the server sends the events of Events.
Next ==
    \/ Control
    \/ Transport
    \/ \E s \in Slots : \E chunk \in Chunks :
          ReadChunk(s, chunk) /\ UNCHANGED codec

Spec == Init /\ [][Next]_vars

\* SpecStream: one session at a time; the server sends every type of event.
InitStream ==
    /\ InitModel
    /\ sessions = <<NoSession>>
    /\ codec = NoCodec

NextStream ==
    \/ Control
    \/ Transport
    \/ \E s \in Slots : \E chunk \in StreamChunks :
          ReadChunk(s, chunk) /\ UNCHANGED codec

SpecStream == InitStream /\ [][NextStream]_vars

\* SpecRetry: up to MaxLiveRetry sessions overlap; every request is rejected
\* or aborted before a response arrives.
InitRetry ==
    /\ InitModel
    /\ sessions = [s \in 1..MaxLiveRetry |-> NoSession]
    /\ codec = NoCodec

NextRetry ==
    \/ \E a \in Articles : UserStart(a) /\ UNCHANGED codec
    \/ \E t \in Slots : TimerFire(t) /\ UNCHANGED codec
    \/ stopStream /\ UNCHANGED codec
    \/ \E s \in Slots : FetchReject(s) /\ UNCHANGED codec
    \/ \E s \in Slots : AbortSettles(s) /\ UNCHANGED codec

SpecRetry == InitRetry /\ [][NextRetry]_vars

\* SpecCodec: one session at a time reads a response body of up to MaxBlocks
\* blocks, cut into chunks at every place; handed lists the events given to
\* processWorkflowEvent.
CodecBlocks ==
    {Block("plain", "1"), Block("spaced", "2"), Block("plain", "x"),
     Block("noisy", "1"), Block("cut", "2")}

\* A body is a sequence of blocks; only its last block can lack its blank line.
Bodies ==
    {bs \in UNION {[1..n -> CodecBlocks] : n \in 0..MaxBlocks} :
        \A i \in 1..(Len(bs) - 1) : bs[i].kind # "cut"}

InitCodec ==
    /\ InitModel
    /\ sessions = <<NoSession>>
    /\ \E bs \in Bodies :
          codec = [blocks |-> bs, wire |-> Wire(bs), carry |-> <<>>, handed |-> <<>>]

\* processStreamResponse is entered: let buffer = ''.
CodecFetchOk(s) ==
    /\ FetchOk(s)
    /\ codec' = [codec EXCEPT !.carry = <<>>]

\* reader.read() resolves with the next k characters of the body: they are
\* added to the buffer and the complete messages are taken out of it.
ReadText(s, k) ==
    /\ running = 0
    /\ sessions[s].pc = "read" /\ ~sessions[s].aborted
    /\ k \in 1..Len(codec.wire)
    /\ LET decoded == Decode(codec.carry \o SubSeq(codec.wire, 1, k))
       IN  /\ codec' = [codec EXCEPT
                           !.wire = SubSeq(codec.wire, k + 1, Len(codec.wire)),
                           !.carry = decoded.rest]
           /\ sessions' = [sessions EXCEPT
                  ![s].buffer = decoded.events,
                  ![s].pc = IF decoded.events = <<>> THEN "read" ELSE "loop"]
           /\ running' = IF decoded.events = <<>> THEN 0 ELSE s
    /\ isConnecting' = IF sessions[s].capConnecting THEN FALSE ELSE isConnecting
    /\ reconnectAttemptsRef' =
          IF sessions[s].capConnecting THEN 0 ELSE reconnectAttemptsRef
    /\ UNCHANGED <<workflowSteps, answers, isStreaming, isCompleted, error,
                   abortControllerRef, reconnectTimeoutRef, now>>

CodecHandle(s, t) ==
    /\ HandleMessage(s, t)
    /\ codec' = [codec EXCEPT !.handed = Append(@, Head(sessions[s].buffer))]

\* The body has been read to its end: reader.read() reports done and the
\* buffer goes out of scope.
CodecDone(s) ==
    /\ codec.wire = <<>>
    /\ ReadDone(s)
    /\ codec' = [codec EXCEPT !.carry = <<>>]

NextCodec ==
    \/ \E a \in Articles : UserStart(a) /\ UNCHANGED codec
    \/ \E s \in Slots : CodecFetchOk(s)
    \/ \E s \in Slots : \E k \in 1..Len(codec.wire) : ReadText(s, k)
    \/ \E s \in Slots : \E t \in Readings : CodecHandle(s, t)
    \/ \E s \in Slots : CodecDone(s)

SpecCodec == InitCodec /\ [][NextCodec]_vars

-----------------------------------------------------------------------------
(* Claims *)

Active == {i \in 1..Len(workflowSteps) : workflowSteps[i].isCurrent}
OpenSessions == {s \in Slots : Open(s)}
Handles(s) == \E t \in Readings : HandleMessage(s, t)

\* C1: in every reachable state at most one step is active (isCurrent), and
\* every step before an active step is done (isCompleted and not isCurrent).
C1_AtMostOneActive ==
    /\ Cardinality(Active) <= 1
    /\ \A j \in Active : \A i \in 1..(j - 1) :
          workflowSteps[i].isCompleted /\ ~workflowSteps[i].isCurrent

\* C1 witness: two steps, the first done and toggled shut, the second active
\* with its content replaced and a line appended.
C1_Witness ==
    /\ Len(workflowSteps) = 2
    /\ workflowSteps[1].isCompleted /\ ~workflowSteps[1].showDetails
    /\ workflowSteps[2].isCurrent /\ workflowSteps[2].content = "c2"
    /\ workflowSteps[2].internalContent # <<>>

\* C2 (as claimed): there are never two open requests at once.
C2_OneOpenRequest == Cardinality(OpenSessions) <= 1

\* C3: once a session has processed 'complete', no later step of that session
\* changes steps, answers, isCompleted or error.
C3_CompleteIsTerminal ==
    [][\A s \in Slots :
          (sessions[s].gotComplete /\ SessionStep(s))
             => UNCHANGED <<workflowSteps, answers, isCompleted, error>>]_vars

\* C3 witness: a session has processed 'complete' behind a started step and
\* waits for reader.cancel().
C3_Witness ==
    \E s \in Slots :
        /\ sessions[s].gotComplete /\ sessions[s].pc = "cancel"
        /\ isCompleted /\ Len(workflowSteps) = 1 /\ Len(answers) = 1

\* C4 (as claimed): once a session has processed 'error', no later event of
\* that session changes steps, answers, isCompleted or error.
C4_ErrorIsTerminal ==
    [][\A s \in Slots :
          (sessions[s].gotError /\ Handles(s))
             => UNCHANGED <<workflowSteps, answers, isCompleted, error>>]_vars

\* C5 (as claimed): when a reconnection timer fires, a new request is opened
\* with the userArticle of the attempt that failed.
C5_TimerReconnects ==
    [][\A t \in Slots :
          TimerFire(t) =>
             \E s \in Slots :
                /\ sessions[s].pc # "fetch"
                /\ sessions'[s].pc = "fetch"
                /\ sessions'[s].userArticle = sessions[t].userArticle]_vars

\* C6 (as claimed): a transport failure that finds the ceiling reached leaves
\* the session failed with the ceiling-exceeded message and sets no timer.
C6_CeilingFails ==
    [][\A s \in Slots :
          (FetchReject(s) /\ reconnectAttemptsRef >= MAX_RECONNECT_ATTEMPTS)
             => /\ error' = CeilingMessage
                /\ ~isStreaming' /\ ~isConnecting'
                /\ sessions'[s].timer # "pending"]_vars

\* C7 (as claimed): a session that has processed 'error' schedules no
\* reconnection afterwards.
C7_NoRetryAfterError ==
    [][\A s \in Slots :
          (sessions[s].gotError /\ SessionStep(s))
             => /\ reconnectAttemptsRef' <= reconnectAttemptsRef
                /\ sessions'[s].timer # "pending"]_vars

\* C8 (as claimed): stopStream leaves no open request, no pending timer,
\* retry count 0 and status idle.
C8_StopLeavesIdle ==
    [][stopStream =>
          /\ \A s \in Slots : sessions'[s].pc \in {"none", "cancel"} \/ sessions'[s].aborted
          /\ \A t \in Slots : sessions'[t].timer # "pending"
          /\ abortControllerRef' = 0 /\ reconnectTimeoutRef' = 0
          /\ reconnectAttemptsRef' = 0
          /\ ~isStreaming' /\ ~isConnecting']_vars

\* C9 (as claimed): no step of a cancelled session sets the error message or
\* schedules a reconnection.
C9_CancelSetsNoError ==
    [][\A s \in Slots :
          (sessions[s].aborted /\ SessionStep(s))
             => /\ error = Null => error' = Null
                /\ sessions'[s].timer # "pending"]_vars

\* C10 (as claimed): the settling of a cancelled session changes nothing of
\* the session that superseded it.
C10_SupersededIsInert ==
    [][\A s \in Slots :
          (/\ sessions[s].aborted /\ SessionStep(s)
           /\ abortControllerRef \in Slots \ {s} /\ Live(abortControllerRef))
             => UNCHANGED <<workflowSteps, answers, isStreaming, isConnecting,
                            error, abortControllerRef>>]_vars

\* A call of startWorkflowStream by the user that passes the guard.
Accepted == \E a \in Articles : UserStart(a) /\ ~StartRejected(isStreaming)

\* A reconnection timer's call of startWorkflowStream that passes the guard.
AcceptedByTimer ==
    \E t \in Slots : TimerFire(t) /\ ~StartRejected(sessions[t].capStreaming)

\* C11 (as claimed): right after a start by the user that passes the guard the
\* step list and the answer list are empty, error is null, isCompleted is
\* false and the retry count is 0.
C11_StartIsClean ==
    [][Accepted =>
          /\ workflowSteps' = <<>> /\ answers' = <<>>
          /\ error' = Null /\ ~isCompleted'
          /\ reconnectAttemptsRef' = 0]_vars

\* Session s handles, in this step, a message for which P holds.
Head1(s) == Head(sessions[s].buffer)
HandlesNew(s) ==
    /\ Handles(s)
    /\ Head1(s).type = "internal" /\ Head1(s).event_status = "new"
HandlesType(s, type) == Handles(s) /\ Head1(s).type = type
HandlesOld(s) ==
    /\ Handles(s)
    /\ Head1(s).type = "internal" /\ Head1(s).event_status = "old"

\* What of a step only 'old' and 'internal_content' events may change.
Body(step) == <<step.id, step.nodeName, step.content, step.internalContent>>

\* C12: an 'internal'/'new' event lengthens the step list by exactly one; the
\* new step is last, active, shown, seeded with the event's content and has no
\* detail lines; every prior step keeps its place, id, nodeName, content and
\* internalContent.
C12_NewAppendsOne ==
    [][\A s \in Slots : HandlesNew(s) =>
          LET n == Len(workflowSteps)
          IN  /\ Len(workflowSteps') = n + 1
              /\ workflowSteps'[n + 1].isCurrent
              /\ workflowSteps'[n + 1].showDetails
              /\ workflowSteps'[n + 1].content = Head1(s).content
              /\ workflowSteps'[n + 1].nodeName = Head1(s).node
              /\ workflowSteps'[n + 1].internalContent = <<>>
              /\ \A i \in 1..n : Body(workflowSteps'[i]) = Body(workflowSteps[i])]_vars

\* C12 witness: a second step has just been appended behind a first one that
\* keeps its updated content and both its detail lines.
C12_Witness ==
    /\ Len(workflowSteps) = 2
    /\ workflowSteps[1].content = "c2"
    /\ workflowSteps[1].internalContent = <<"d1", "d2">>
    /\ workflowSteps[2].isCurrent /\ workflowSteps[2].content = "c1"
    /\ workflowSteps[2].internalContent = <<>>

\* C13 (as claimed): an 'internal'/'new' event turns every step that was
\* active into a done step whose details are hidden.
C13_CollapseOnAdvance ==
    [][\A s \in Slots : HandlesNew(s) =>
          \A i \in Active :
             /\ workflowSteps'[i].isCompleted /\ ~workflowSteps'[i].isCurrent
             /\ ~workflowSteps'[i].showDetails]_vars

\* The lines an 'internal_content' message handled in this step by some
\* session brings, <<>> when no such message is handled.
LinesNow ==
    IF \E s \in Slots : HandlesType(s, "internal_content")
    THEN Head1(CHOOSE s \in Slots : HandlesType(s, "internal_content")).lines
    ELSE <<>>

\* C14: every step of the program either is an accepted start or leaves each
\* step's internalContent as it was, except that an 'internal_content' event
\* appends its lines, in their order and with duplicates, to the active step;
\* with no active step that event changes no step.
C14_DetailsAppendInOrder ==
    [][\/ Accepted \/ AcceptedByTimer
       \/ /\ Len(workflowSteps') >= Len(workflowSteps)
          /\ \A i \in 1..Len(workflowSteps) :
                workflowSteps'[i].internalContent =
                   IF i \in Active
                   THEN workflowSteps[i].internalContent \o LinesNow
                   ELSE workflowSteps[i].internalContent
          /\ (LinesNow # <<>> /\ Active = {}) => workflowSteps' = workflowSteps]_vars

\* C14 witness: the active step holds the same line twice, from two events.
C14_Witness ==
    /\ Len(workflowSteps) = 1 /\ workflowSteps[1].isCurrent
    /\ workflowSteps[1].internalContent = <<"d1", "d1">>

\* C15: an 'internal'/'old' event replaces the content of the active step and
\* changes nothing else of the model; with no active step it changes nothing.
C15_OldReplacesContent ==
    [][\A s \in Slots : HandlesOld(s) =>
          /\ workflowSteps' =
                [i \in 1..Len(workflowSteps) |->
                    IF i \in Active
                    THEN [workflowSteps[i] EXCEPT !.content = Head1(s).content]
                    ELSE workflowSteps[i]]
          /\ UNCHANGED <<answers, isStreaming, isConnecting, isCompleted, error>>
          /\ Active = {} => UNCHANGED model]_vars

\* C15 witness: of two steps the done one keeps the content it was seeded
\* with, the active one has its content replaced and no detail lines.
C15_Witness ==
    /\ Len(workflowSteps) = 2 /\ Len(answers) = 1
    /\ workflowSteps[1].isCompleted /\ workflowSteps[1].content = "c1"
    /\ workflowSteps[2].isCurrent /\ workflowSteps[2].content = "c2"
    /\ workflowSteps[2].internalContent = <<>>

\* C16: unless a start is accepted, every step of the program leaves the
\* answers there are as they are; an 'answer' event appends exactly one answer
\* with the event's node and content, whether or not a step is active, and
\* leaves the step list unchanged; nothing else changes the answer list.
C16_AnswersAppendOnly ==
    [][\/ Accepted \/ AcceptedByTimer
       \/ IF \E s \in Slots : HandlesType(s, "answer")
          THEN \A s \in Slots : HandlesType(s, "answer") =>
                  /\ Len(answers') = Len(answers) + 1
                  /\ SubSeq(answers', 1, Len(answers)) = answers
                  /\ answers'[Len(answers')].node = Head1(s).node
                  /\ answers'[Len(answers')].data = Head1(s).content
                  /\ workflowSteps' = workflowSteps
          ELSE answers' = answers]_vars

\* C16 witness: two answers, both received while no step was active.
C16_Witness ==
    /\ Len(answers) = 2 /\ workflowSteps = <<>>
    /\ answers[1].node = "n1" /\ answers[2].data = "c1"

\* C17: a 'complete' event leaves every step done, not active and hidden, the
\* session completed (isCompleted, not streaming, not connecting), and the
\* number, order, content and internalContent of the steps and the answer
\* list as they were.
C17_CompleteFinishesAll ==
    [][\A s \in Slots : HandlesType(s, "complete") =>
          /\ Len(workflowSteps') = Len(workflowSteps)
          /\ \A i \in 1..Len(workflowSteps) :
                /\ workflowSteps'[i].isCompleted /\ ~workflowSteps'[i].isCurrent
                /\ ~workflowSteps'[i].showDetails
                /\ Body(workflowSteps'[i]) = Body(workflowSteps[i])
          /\ isCompleted' /\ ~isStreaming' /\ ~isConnecting'
          /\ answers' = answers]_vars

\* C17 witness: one step with one detail line ends done and hidden with the
\* line kept, the session completed.
C17_Witness ==
    /\ isCompleted /\ ~isStreaming /\ ~isConnecting
    /\ Len(workflowSteps) = 1
    /\ workflowSteps[1].isCompleted /\ ~workflowSteps[1].isCurrent
    /\ ~workflowSteps[1].showDetails
    /\ workflowSteps[1].internalContent = <<"d1">>

\* C18: an 'error' event sets error to the event's content, ends streaming
\* and connecting, leaves isCompleted false if it was, and leaves the steps
\* and the answers as they were.
C18_ErrorFailsSession ==
    [][\A s \in Slots : HandlesType(s, "error") =>
          /\ error' = Head1(s).content
          /\ ~isStreaming' /\ ~isConnecting'
          /\ ~isCompleted => ~isCompleted'
          /\ workflowSteps' = workflowSteps
          /\ answers' = answers]_vars

\* C18 witness: a session has failed on an 'error' event behind one step and
\* one answer, and is not completed.
C18_Witness ==
    /\ error = "boom" /\ ~isStreaming /\ ~isConnecting /\ ~isCompleted
    /\ Len(workflowSteps) = 1 /\ Len(answers) = 1
    /\ \E s \in Slots : sessions[s].gotError

\* C19 (as claimed): after an 'error' event no step is active.
C19_ErrorDeactivates ==
    [][\A s \in Slots : HandlesType(s, "error") =>
          \A i \in 1..Len(workflowSteps') : ~workflowSteps'[i].isCurrent]_vars

\* Session s reads a chunk of the response body in this step.
Reads(s) == \E chunk \in StreamChunks : ReadChunk(s, chunk)

\* C20 (as claimed): an accepted start leaves the session connecting, and
\* reading a chunk of the response body leaves it no longer connecting.
C20_FirstChunkStreams ==
    [][/\ Accepted => isConnecting'
       /\ \A s \in Slots : Reads(s) => ~isConnecting']_vars

\* The body of SpecCodec seen from outside the codec.
Sent == Wire(codec.blocks)
Delivered == Len(Sent) - Len(codec.wire)
\* How many blocks have been delivered with their blank line.
CompleteBlocks ==
    LET ns == {n \in 0..Len(codec.blocks) :
                  /\ Len(Wire(SubSeq(codec.blocks, 1, n))) <= Delivered
                  /\ \A i \in 1..n : codec.blocks[i].kind # "cut"}
    IN  CHOOSE n \in ns : \A m \in ns : m <= n
Boundary == Len(Wire(SubSeq(codec.blocks, 1, CompleteBlocks)))
\* The events handed to processWorkflowEvent or decoded and about to be.
Decoded ==
    codec.handed \o (IF running = 0 THEN <<>> ELSE sessions[running].buffer)
IsData(b) == b.kind \in {"plain", "spaced"} /\ b.payload \in Payloads
RECURSIVE EventsOf(_)
EventsOf(blocks) ==
    IF blocks = <<>> THEN <<>>
    ELSE (IF IsData(Head(blocks)) THEN <<Parsed(<<Head(blocks).payload>>)>> ELSE <<>>)
         \o EventsOf(Tail(blocks))
ValidBody == \A i \in 1..Len(codec.blocks) : IsData(codec.blocks[i])
InBody == \E s \in Slots : sessions[s].pc \in {"read", "loop"}

\* C21: for a body of N valid 'data:' blocks and every way of cutting it into
\* chunks, the events decoded so far are exactly those of the blocks delivered
\* whole, in wire order, and the buffer carries the text delivered behind the
\* last block boundary.
C21_SplitIndependence ==
    ValidBody =>
       /\ Decoded = EventsOf(SubSeq(codec.blocks, 1, CompleteBlocks))
       /\ InBody => codec.carry = SubSeq(Sent, Boundary + 1, Delivered)

\* C21 witness: of three valid blocks the first has been handed over and the
\* chunk ended inside the second.
C21_Witness ==
    /\ ValidBody /\ Len(codec.blocks) = 3
    /\ Len(codec.handed) = 1 /\ running = 0
    /\ codec.carry = <<"d", "a", "t">>

\* Session s reads, in this step, a chunk that completes blocks none of which
\* hands over an event.
SkipsOnly(s) ==
    /\ \E k \in 1..Len(codec.wire) : ReadText(s, k)
    /\ CompleteBlocks' > CompleteBlocks
    /\ \A i \in (CompleteBlocks + 1)..CompleteBlocks' : codec.blocks[i].payload = "x"
NoNoise == \A i \in 1..Len(codec.blocks) : codec.blocks[i].kind \in {"plain", "spaced", "cut"}

\* C22: a chunk that completes only blocks whose payload is not valid JSON
\* changes nothing of the model, sets no error, schedules no retry and leaves
\* the session reading; the well-formed blocks of the body, before and after
\* it, are all decoded, in order.
C22_MalformedIsSkipped ==
    /\ [][\A s \in Slots : SkipsOnly(s) =>
             /\ UNCHANGED <<model, refs>>
             /\ sessions'[s].pc = "read" /\ sessions'[s].timer = "none"]_vars
    /\ [](NoNoise => Decoded = EventsOf(SubSeq(codec.blocks, 1, CompleteBlocks)))

\* C22 witness: of three blocks the middle one is malformed and the events of
\* the other two have been handed over.
C22_Witness ==
    /\ Len(codec.blocks) = 3 /\ codec.blocks[2].payload = "x"
    /\ IsData(codec.blocks[1]) /\ IsData(codec.blocks[3])
    /\ Len(codec.handed) = 2 /\ codec.wire = <<>>
    /\ error = Null /\ reconnectAttemptsRef = 0

\* The events of the blocks when a line without the marker is only dropped.
RECURSIVE EventsBesidesNoise(_)
EventsBesidesNoise(blocks) ==
    IF blocks = <<>> THEN <<>>
    ELSE (IF Head(blocks).kind # "cut" /\ Head(blocks).payload \in Payloads
          THEN <<Parsed(<<Head(blocks).payload>>)>> ELSE <<>>)
         \o EventsBesidesNoise(Tail(blocks))

\* C23 (as claimed): a block that holds a line without the marker before its
\* 'data:' line still yields the event of that line.
C23_NoiseLosesNothing ==
    Decoded = EventsBesidesNoise(SubSeq(codec.blocks, 1, CompleteBlocks))

\* The places of the step list that this step of the program changes.
Changed ==
    {i \in 1..Len(workflowSteps) :
        i > Len(workflowSteps') \/ workflowSteps'[i] # workflowSteps[i]}

\* C24 (as claimed): toggleStepExpansion flips showDetails of exactly one
\* step, the one with the given id, and changes nothing else.
C24_ToggleFlipsOne ==
    [][\A id \in StepIds \cup {BogusId} : toggleStepExpansion(id) =>
          /\ Len(workflowSteps') = Len(workflowSteps)
          /\ Cardinality(Changed) <= 1
          /\ \A i \in Changed :
                /\ workflowSteps[i].id = id
                /\ workflowSteps'[i] =
                      [workflowSteps[i] EXCEPT !.showDetails = ~workflowSteps[i].showDetails]
          /\ UNCHANGED <<answers, isStreaming, isConnecting, isCompleted, error>>]_vars

\* C25 (as claimed): no two steps of the list have the same id.
C25_StepIdsUnique ==
    \A i, j \in 1..Len(workflowSteps) :
        i # j => workflowSteps[i].id # workflowSteps[j].id

\* C26 (as claimed): error is set only while the session is neither
\* streaming, connecting nor completed, and isCompleted and isStreaming are
\* never both true.
C26_StatusSingleValued ==
    /\ error # Null => ~isStreaming /\ ~isConnecting /\ ~isCompleted
    /\ ~(isCompleted /\ isStreaming)

\* The states stopStream leaves behind.
Stopped ==
    /\ abortControllerRef = 0 /\ reconnectTimeoutRef = 0
    /\ reconnectAttemptsRef = 0
    /\ ~isStreaming /\ ~isConnecting

\* C27: stopStream never changes steps, answers, isCompleted or error and
\* leaves the status idle; called in a state that a stop left behind, among
\* them the states with no session, it changes nothing at all.
C27_StopIsIdempotent ==
    [][stopStream =>
          /\ UNCHANGED <<workflowSteps, answers, isCompleted, error>>
          /\ Stopped'
          /\ Stopped => UNCHANGED vars]_vars

\* C27 witness: a stop has aborted a session that had a step and an answer
\* and has not settled yet.
C27_Witness ==
    /\ Stopped
    /\ \E s \in Slots : Live(s) /\ sessions[s].aborted /\ sessions[s].pc = "read"
    /\ Len(workflowSteps) = 1 /\ Len(answers) = 1
    /\ \A s \in Slots : ~Open(s)

\* SpecLive: one session at a time and no stopStream; every request is
\* answered or fails, every body ends or fails, every timer fires.
NextLive ==
    \/ \E a \in Articles : UserStart(a) /\ UNCHANGED codec
    \/ \E t \in Slots : TimerFire(t) /\ UNCHANGED codec
    \/ \E s \in Slots : FetchOk(s) /\ UNCHANGED codec
    \/ \E s \in Slots : FetchNotOk(s) /\ UNCHANGED codec
    \/ \E s \in Slots : FetchReject(s) /\ UNCHANGED codec
    \/ \E s \in Slots : ErrorTextSettles(s) /\ UNCHANGED codec
    \/ \E s \in Slots : \E chunk \in Chunks : ReadChunk(s, chunk) /\ UNCHANGED codec
    \/ \E s \in Slots : \E t \in Readings : HandleMessage(s, t) /\ UNCHANGED codec
    \/ \E s \in Slots : ReadDone(s) /\ UNCHANGED codec
    \/ \E s \in Slots : ReadFail(s) /\ UNCHANGED codec
    \/ \E s \in Slots : CancelDone(s) /\ UNCHANGED codec

\* A request is answered or fails; a body is read to a 'complete' event, to its
\* end or to a failure.
Answered(s) == (FetchOk(s) \/ FetchNotOk(s) \/ FetchReject(s)) /\ UNCHANGED codec
Ended(s) == (ReadDone(s) \/ ReadFail(s) \/ CancelDone(s)) /\ UNCHANGED codec

\* SpecLive has the one session id 1.
Fairness ==
    /\ WF_vars(TimerFire(1) /\ UNCHANGED codec)
    /\ WF_vars(Answered(1))
    /\ WF_vars(ErrorTextSettles(1) /\ UNCHANGED codec)
    /\ WF_vars(\E t \in Readings : HandleMessage(1, t) /\ UNCHANGED codec)
    /\ SF_vars(Ended(1))

SpecLive == InitStream /\ [][NextLive]_vars /\ Fairness

\* C28 (as claimed): a session that is connecting or streaming eventually is
\* neither, without a call of stopStream.
C28_StartEventuallyEnds ==
    (isStreaming \/ isConnecting) ~> (~isStreaming /\ ~isConnecting)

\* C29 (as claimed): whenever the session is neither connecting nor streaming
\* the guard of startWorkflowStream lets a call by the user through.
C29_IdleAcceptsStart ==
    (~isStreaming /\ ~isConnecting) => ~StartRejected(isStreaming)

\* Session s finds its body ended, in this step, having handled no terminal
\* event.
EndsClean(s) ==
    ReadDone(s) /\ ~sessions[s].gotError /\ ~sessions[s].gotComplete

\* C30: when the body ends before a terminal event the session ends idle:
\* not streaming, not connecting, isCompleted and error as they were, no
\* retry counted or scheduled, nothing more handed over from the buffer, and
\* the steps, the active one with isLoading among them, as they were.
C30_CleanEndIsIdle ==
    [][\A s \in Slots : EndsClean(s) =>
          /\ ~isStreaming' /\ ~isConnecting'
          /\ UNCHANGED <<isCompleted, error, workflowSteps, answers>>
          /\ UNCHANGED <<reconnectAttemptsRef, reconnectTimeoutRef>>
          /\ sessions'[s] = NoSession
          /\ codec'.handed = codec.handed /\ codec'.carry = <<>>]_vars

=============================================================================
